---- MODULE Spec2Model ----
(***************************************************************************)
(* Chat session (ChatContext.tsx, the chat page handlers, chat.sendMessage *)
(* of the API client) and the navigation guard (middleware.ts) of the      *)
(* thoth front end.                                                        *)
(*                                                                         *)
(* Strings are modelled as sequences of atoms: an atom stands for a run of *)
(* characters that is never split ("/", ".", " ", "login", ...), so that   *)
(* trim, startsWith and includes are computed on the sequence.             *)
(***************************************************************************)
EXTENDS Integers, Sequences, FiniteSets, TLC

\* ------------------------------------------------------------------ bounds
MaxClock == 2
MaxThreads == 2
MaxSends == 2
MaxTitleLen == 3

\* --------------------------------------------------------------- constants
NoThread == 0
NoToken == "none"
NoError == "undefined"
NoMessage == <<"none", 0>>
NoRequest == [messageId |-> NoMessage, content |-> <<>>, threadId |-> NoThread, retryOf |-> NoMessage]

VARIABLES
  messages,          \* ChatContext: useState<ChatMessage[]>
  threads,           \* ChatContext: useState<ChatThread[]>
  currentThreadId,   \* ChatContext: useState<string | null>
  loadingMessages,   \* ChatContext: useState(false)
  isSending,         \* ChatPage: useState(false)
  inflight,          \* sendMessage calls suspended at await chat.sendMessage
  localToken,        \* localStorage 'access_token'
  unloading,         \* window.location.href = '/login' assigned, document not yet replaced
  now,               \* Date.now()
  nextUuid,          \* number of uuidv4() values drawn so far
  sends,             \* number of sendMessage calls that appended a message so far
  lastOp,            \* history: the operation of the last step, its text and its request
  hadMessages,       \* history: the threads on which a message was appended while active
  reqGuard,          \* middleware: the middleware module that evaluates the request
  reqPath, reqCookie, reqFrom, reqRedirect, reqNow,   \* middleware: the request
  response,          \* middleware: the response returned
  cookieToken,       \* document.cookie 'access_token'
  user,              \* AuthContext: useState<User | null>
  authLoading,       \* AuthContext: useState(true), loading
  loginPending,      \* AuthContext.login suspended at await auth.login
  formError,         \* LoginForm: errors.form of the mounted form
  location,          \* the URL of the document shown
  navTarget,         \* the URL a navigation has been started to
  late,              \* the wall clock has passed the expiry of the first token
  user2,             \* AuthContext user of a second tab on the same storage
  events2,           \* storage events queued for the second tab
  location2,         \* the path of the page the second tab shows
  beforeLogin        \* history: token stores and identity when the pending login began

chatVars == <<messages, threads, currentThreadId, loadingMessages, isSending,
              inflight, localToken, unloading, now, nextUuid, sends, lastOp, hadMessages>>
guardVars == <<reqGuard, reqPath, reqCookie, reqFrom, reqRedirect, reqNow, response>>
authVars == <<cookieToken, user, authLoading, loginPending, formError,
              location, navTarget, late, user2, events2, location2, beforeLogin>>
vars == <<messages, threads, currentThreadId, loadingMessages, isSending,
          inflight, localToken, unloading, now, nextUuid, sends, lastOp, hadMessages,
          reqGuard, reqPath, reqCookie, reqFrom, reqRedirect, reqNow, response,
          cookieToken, user, authLoading, loginPending, formError,
          location, navTarget, late, user2, events2, location2, beforeLogin>>

\* ------------------------------------------------------------------ strings
RECURSIVE TrimStart(_)
TrimStart(s) == IF s # <<>> /\ Head(s) = " " THEN TrimStart(Tail(s)) ELSE s

RECURSIVE TrimEnd(_)
TrimEnd(s) == IF s # <<>> /\ s[Len(s)] = " " THEN TrimEnd(SubSeq(s, 1, Len(s) - 1)) ELSE s

\* String.prototype.trim
Trim(s) == TrimEnd(TrimStart(s))

\* the texts the input box can hold
Contents == {<<>>, <<" ", " ">>, <<" ", "a", " ">>}

\* response.response of the backend
Replies == {<<"hi">>}

\* error.response.data.error || error.response.data.message of a backend error ("" = absent or empty)
ServerErrors == {"", "Internal Server Error"}

FailureKinds == {"unauthorized", "timeout", "server"}

\* ---------------------------------------------------------------- messages
ThreadIdsOf(ts) == {ts[i].id : i \in DOMAIN ts}

\* const userMessage: ChatMessage = {...}
UserMessage(content, threadId, t) ==
  [id |-> <<"msg", t>>, content |-> content, role |-> "user", thread_id |-> threadId,
   created_at |-> t, status |-> "sending", sender |-> "user", error |-> NoError]

\* const aiMessage: ChatMessage = {...}
AiMessage(reply, threadId, t) ==
  [id |-> <<"ai", t>>, content |-> reply, role |-> "assistant", thread_id |-> threadId,
   created_at |-> t, status |-> "delivered", sender |-> "ai", error |-> NoError]

\* prev.map(msg => msg.id === messageId ? { ...msg, status: DELIVERED } : msg)
MarkDelivered(ms, messageId) ==
  [i \in DOMAIN ms |-> IF ms[i].id = messageId THEN [ms[i] EXCEPT !.status = "delivered"] ELSE ms[i]]

\* the catch branch attaching the error but leaving the status as it was
MarkFailed_keepsStatus(ms, messageId, err) ==
  [i \in DOMAIN ms |-> IF ms[i].id = messageId THEN [ms[i] EXCEPT !.error = err] ELSE ms[i]]

\* prev.map(msg => msg.id === messageId ? { ...msg, status: FAILED, error } : msg)
MarkFailed(ms, messageId, err) ==
  [i \in DOMAIN ms |-> IF ms[i].id = messageId
                       THEN [ms[i] EXCEPT !.status = "failed", !.error = err] ELSE ms[i]]

\* the message of the Error chat.sendMessage throws
ErrorMessage(kind, serverError) ==
  CASE kind = "notoken" -> "No authentication token found. Please log in again."
    [] kind = "nodata" -> "No response data received from server"
    [] kind = "unauthorized" -> "Your session has expired. Please log in again."
    [] kind = "timeout" -> "Request timed out. Please check your connection and try again."
    [] kind = "offline" -> "You are offline. Please check your internet connection."
    [] OTHER -> IF serverError # "" THEN serverError ELSE "Failed to send message. Please try again."

\* history: the record of a step
Op(name, text, req) == [op |-> name, text |-> text, req |-> req]

RemoveAt(s, i) == SubSeq(s, 1, i - 1) \o SubSeq(s, i + 1, Len(s))

\* history: a message is appended while thread tid is active
NoteAppended(tid) == hadMessages \cup {tid}

\* ---------------------------------------------------------------- ChatContext
\* createNewThread without setMessages([])
createNewThread_keepsLog ==
  /\ nextUuid < MaxThreads
  /\ nextUuid' = nextUuid + 1
  /\ currentThreadId' = nextUuid + 1
  /\ UNCHANGED messages
  /\ threads' = <<[id |-> nextUuid + 1, title |-> "New Chat"]>> \o threads

\* createNewThread: uuidv4() is a value never drawn before; lastMessageAt,
\* which nothing reads or updates, is left out of the thread record
createNewThread ==
  /\ nextUuid < MaxThreads
  /\ nextUuid' = nextUuid + 1
  /\ currentThreadId' = nextUuid + 1
  /\ messages' = <<>>
  /\ threads' = <<[id |-> nextUuid + 1, title |-> "New Chat"]>> \o threads

switchThread(threadId) ==
  /\ currentThreadId' = threadId
  /\ messages' = <<>>

\* sendMessage up to the await: the guard, the optimistic append, and
\* chat.sendMessage up to api.post (it throws at once without a stored token)
sendMessage(content, retryOf) ==
  IF currentThreadId = NoThread
  THEN UNCHANGED <<messages, inflight, loadingMessages, hadMessages, sends>>
  ELSE LET userMessage == UserMessage(content, currentThreadId, now)
           req == [messageId |-> userMessage.id, content |-> content,
                   threadId |-> currentThreadId, retryOf |-> retryOf]
       IN /\ hadMessages' = NoteAppended(currentThreadId)
          /\ sends' = sends + 1
          /\ IF localToken = NoToken
             THEN /\ messages' = MarkFailed(Append(messages, userMessage), userMessage.id,
                                            ErrorMessage("notoken", ""))
                  /\ loadingMessages' = FALSE
                  /\ UNCHANGED inflight
             ELSE /\ messages' = Append(messages, userMessage)
                  /\ loadingMessages' = TRUE
                  /\ inflight' = Append(inflight, req)

\* one more message may be sent
HasRoom == sends < MaxSends

\* ---------------------------------------------------------------- ChatPage
\* ChatProvider: useEffect(() => { if (!currentThreadId) createNewThread() })
MountEffect ==
  /\ currentThreadId = NoThread
  /\ createNewThread
  /\ lastOp' = Op("createNewThread", <<>>, NoRequest)
  /\ UNCHANGED <<sends, guardVars, authVars>>
  /\ UNCHANGED <<loadingMessages, isSending, inflight, localToken, unloading, now, hadMessages>>

\* the New Chat button (disabled while isSending) -> handleNewChat
handleNewChat ==
  /\ ~isSending
  /\ createNewThread
  /\ lastOp' = Op("createNewThread", <<>>, NoRequest)
  /\ UNCHANGED <<sends, guardVars, authVars>>
  /\ UNCHANGED <<loadingMessages, isSending, inflight, localToken, unloading, now, hadMessages>>

handleThreadSelect(threadId) ==
  /\ lastOp' = Op("switchThread", <<>>, NoRequest)
  /\ switchThread(threadId)
  /\ UNCHANGED <<sends, guardVars, authVars>>
  /\ UNCHANGED <<threads, loadingMessages, isSending, inflight, localToken, unloading, now,
                 nextUuid, hadMessages>>

\* handleSendMessage testing !content in place of !content.trim()
handleSendMessage_noTrim(content) ==
  /\ lastOp' = Op("handleSendMessage", content, NoRequest)
  /\ IF content = <<>> \/ isSending
     THEN UNCHANGED <<messages, inflight, loadingMessages, hadMessages, isSending, sends>>
     ELSE /\ HasRoom
          /\ sendMessage(content, NoMessage)
          /\ isSending' = (inflight' # inflight)
  /\ UNCHANGED <<guardVars, authVars>>
  /\ UNCHANGED <<threads, currentThreadId, localToken, unloading, now, nextUuid>>

\* ChatInput.handleSubmit -> handleSendMessage, up to await sendMessage(content)
handleSendMessage(content) ==
  /\ lastOp' = Op("handleSendMessage", content, NoRequest)
  /\ IF Trim(content) = <<>> \/ isSending
     THEN UNCHANGED <<messages, inflight, loadingMessages, hadMessages, isSending, sends>>
     ELSE /\ HasRoom
          /\ sendMessage(content, NoMessage)
          /\ isSending' = (inflight' # inflight)
  /\ UNCHANGED <<guardVars, authVars>>
  /\ UNCHANGED <<threads, currentThreadId, localToken, unloading, now, nextUuid>>

\* the Retry button of a failed user message -> handleRetryMessage(message.id)
handleRetryMessage(i) ==
  /\ HasRoom
  /\ i \in DOMAIN messages
  /\ messages[i].sender = "user"
  /\ messages[i].status = "failed"
  /\ lastOp' = Op("handleRetryMessage", <<>>, [NoRequest EXCEPT !.retryOf = messages[i].id])
  /\ LET found == CHOOSE j \in DOMAIN messages :
                    /\ messages[j].id = messages[i].id
                    /\ \A k \in 1..(j - 1) : messages[k].id # messages[i].id
     IN sendMessage(messages[found].content, messages[i].id)
  /\ UNCHANGED <<guardVars, authVars>>
  /\ UNCHANGED <<threads, currentThreadId, isSending, localToken, unloading, now, nextUuid>>

\* ------------------------------------------------- completion of a send
\* the continuation of sendMessage after a resolved await, and the finally
\* of handleSendMessage when the send was issued by it
SendSucceeds(i, reply) ==
  /\ i \in DOMAIN inflight
  /\ LET req == inflight[i]
         aiMessage == AiMessage(reply, req.threadId, now)
     IN /\ messages' = Append(MarkDelivered(messages, req.messageId), aiMessage)
        /\ hadMessages' = NoteAppended(currentThreadId)
  /\ inflight' = RemoveAt(inflight, i)
  /\ loadingMessages' = FALSE
  /\ isSending' = IF inflight[i].retryOf = NoMessage THEN FALSE ELSE isSending
  /\ lastOp' = Op("sendSucceeds", reply, inflight[i])
  /\ UNCHANGED <<sends, guardVars, authVars>>
  /\ UNCHANGED <<threads, currentThreadId, localToken, unloading, now, nextUuid>>

\* the catch of chat.sendMessage clearing the token and redirecting for every error
SendFails_everyErrorLogsOut(i, kind, serverError) ==
  /\ i \in DOMAIN inflight
  /\ messages' = MarkFailed(messages, inflight[i].messageId, ErrorMessage(kind, serverError))
  /\ inflight' = RemoveAt(inflight, i)
  /\ loadingMessages' = FALSE
  /\ isSending' = IF inflight[i].retryOf = NoMessage THEN FALSE ELSE isSending
  /\ localToken' = NoToken
  /\ unloading' = TRUE
  /\ lastOp' = Op("sendFails", <<kind>>, inflight[i])
  /\ UNCHANGED <<sends, guardVars, authVars>>
  /\ UNCHANGED <<threads, currentThreadId, now, nextUuid, hadMessages>>

\* the catch of sendMessage after a rejected await; a 401 also removes the
\* token and assigns window.location.href
SendFails(i, kind, serverError) ==
  /\ i \in DOMAIN inflight
  /\ messages' = MarkFailed(messages, inflight[i].messageId, ErrorMessage(kind, serverError))
  /\ inflight' = RemoveAt(inflight, i)
  /\ loadingMessages' = FALSE
  /\ isSending' = IF inflight[i].retryOf = NoMessage THEN FALSE ELSE isSending
  /\ localToken' = IF kind = "unauthorized" THEN NoToken ELSE localToken
  /\ unloading' = IF kind = "unauthorized" THEN TRUE ELSE unloading
  /\ lastOp' = Op("sendFails", <<kind>>, inflight[i])
  /\ UNCHANGED <<sends, guardVars, authVars>>
  /\ UNCHANGED <<threads, currentThreadId, now, nextUuid, hadMessages>>

\* the document is replaced after window.location.href = '/login': every
\* provider is constructed again and the suspended sends are gone
PageReload ==
  /\ unloading
  /\ unloading' = FALSE
  /\ messages' = <<>>
  /\ threads' = <<>>
  /\ currentThreadId' = NoThread
  /\ loadingMessages' = FALSE
  /\ isSending' = FALSE
  /\ inflight' = <<>>
  /\ lastOp' = Op("pageReload", <<>>, NoRequest)
  /\ UNCHANGED <<sends, guardVars, authVars>>
  /\ UNCHANGED <<localToken, now, nextUuid, hadMessages>>

\* auth.login stores the access token it received
StoreToken ==
  /\ localToken = NoToken
  /\ ~unloading
  /\ localToken' = "tok"
  /\ cookieToken' = "tok"
  /\ lastOp' = Op("storeToken", <<>>, NoRequest)
  /\ UNCHANGED <<sends, guardVars>>
  /\ UNCHANGED <<user, authLoading, loginPending, formError, location, navTarget, late,
                 user2, events2, location2, beforeLogin>>
  /\ UNCHANGED <<messages, threads, currentThreadId, loadingMessages, isSending, inflight,
                 unloading, now, nextUuid, hadMessages>>

\* the wall clock advances
Tick ==
  /\ now < MaxClock
  /\ now' = now + 1
  /\ lastOp' = Op("tick", <<>>, NoRequest)
  /\ UNCHANGED <<sends, guardVars, authVars>>
  /\ UNCHANGED <<messages, threads, currentThreadId, loadingMessages, isSending, inflight,
                 localToken, unloading, nextUuid, hadMessages>>

\* ---------------------------------------------------------------- middleware
MaxPathLen == 3
MaxExp == 2

PathAtoms == {"/", ".", "login", "chat", "api", "x"}

RECURSIVE SeqsUpTo(_, _)
SeqsUpTo(S, n) ==
  IF n = 0 THEN {<<>>}
  ELSE LET shorter == SeqsUpTo(S, n - 1)
       IN shorter \cup {Append(q, a) : q \in shorter, a \in S}

\* request.nextUrl.pathname: it always begins with "/"
Paths == {q \in SeqsUpTo(PathAtoms, MaxPathLen) : q # <<>> /\ q[1] = "/"}

\* request.cookies.get('access_token')?.value: absent, not a JWT, or a JWT
\* whose payload has exp (seconds) or has no exp
NoExp == -1
NoCookie == [kind |-> "absent", exp |-> NoExp]
Malformed == [kind |-> "malformed", exp |-> NoExp]
Jwt(e) == [kind |-> "jwt", exp |-> e]
Cookies == {NoCookie, Malformed, Jwt(NoExp)} \cup {Jwt(e) : e \in 1..MaxExp}

\* Date.now() in milliseconds, around the expiry instants
Nows == {e * 1000 + d : e \in 1..MaxExp, d \in {-1, 0, 1}}

\* searchParams.get('redirect'): <<>> is null
RedirectParams == {<<>>, <<"/", "chat">>, <<"https://", "evil.example">>, <<"/", "/", "evil.example">>}

StartsWith(s, prefix) == Len(s) >= Len(prefix) /\ SubSeq(s, 1, Len(prefix)) = prefix

Includes(s, atom) == \E i \in DOMAIN s : s[i] = atom

publicPaths == {
  <<"/">>,
  <<"/", "login">>,
  <<"/", "register">>,
  <<"/", "forgot-password">>,
  <<"/", "api", "/", "auth">>,
  <<"/", "_next">>,
  <<"/", "favicon", ".", "ico">>,
  <<"/", "icons">>,
  <<"/", "workbox-">>,
  <<"/", "sw", ".", "js">>,
  <<"/", "manifest", ".", "webmanifest">> }

isPublicPath(pathname) ==
  \E path \in publicPaths :
     \/ pathname = path
     \/ StartsWith(pathname, path \o <<"/">>)
     \/ Includes(pathname, ".")

\* config.matcher: '/((?!api|_next/static|_next/image|favicon.ico).*)'
matcher(pathname) ==
  /\ ~StartsWith(pathname, <<"/", "api">>)
  /\ ~StartsWith(pathname, <<"/", "_next", "/", "static">>)
  /\ ~StartsWith(pathname, <<"/", "_next", "/", "image">>)
  /\ ~StartsWith(pathname, <<"/", "favicon", ".", "ico">>)

NoParams == [redirect |-> <<>>, expired |-> "", error |-> ""]

SelfUrl(path) == [origin |-> "self", path |-> path]

\* new URL(ref, request.url)
ResolveUrl(ref) ==
  IF ref[1] = "https://" THEN [origin |-> "external", path |-> Tail(ref)]
  ELSE IF Len(ref) >= 2 /\ ref[1] = "/" /\ ref[2] = "/"
       THEN [origin |-> "external", path |-> Tail(Tail(ref))]
       ELSE IF ref[1] = "/" THEN SelfUrl(ref) ELSE SelfUrl(<<"/">> \o ref)

\* NextResponse.next()
NextResponse(pathname) ==
  [kind |-> "next", url |-> SelfUrl(pathname), params |-> NoParams,
   deleteCookie |-> FALSE, noCache |-> FALSE]

\* NextResponse.redirect(url)
RedirectResponse(url, params, deleteCookie, noCache) ==
  [kind |-> "redirect", url |-> url, params |-> params,
   deleteCookie |-> deleteCookie, noCache |-> noCache]

LoginPath == <<"/", "login">>

\* decoded.exp * 1000 < Date.now(); without exp the product is NaN and the
\* comparison is false
isExpired(token, t) == token.exp # NoExp /\ token.exp * 1000 < t

\* middleware whose catch redirects with the parameter of the expired branch
middleware_catchAsExpired(pathname, token, redirectPath, t) ==
  IF isPublicPath(pathname) THEN NextResponse(pathname)
  ELSE IF token = NoCookie
  THEN RedirectResponse(SelfUrl(LoginPath),
         [NoParams EXCEPT !.redirect = IF pathname # <<"/">> /\ pathname # LoginPath
                                       THEN pathname ELSE <<>>],
         FALSE, FALSE)
  ELSE IF token.kind = "malformed" \/ isExpired(token, t)
  THEN RedirectResponse(SelfUrl(LoginPath), [NoParams EXCEPT !.expired = "true"], TRUE, FALSE)
  ELSE IF pathname \in {LoginPath, <<"/", "register">>, <<"/", "forgot-password">>}
  THEN RedirectResponse(ResolveUrl(IF redirectPath # <<>> THEN redirectPath ELSE <<"/", "dashboard">>),
                        NoParams, FALSE, TRUE)
  ELSE NextResponse(pathname)

middleware(pathname, token, redirectPath, t) ==
  IF isPublicPath(pathname) THEN NextResponse(pathname)
  ELSE IF token = NoCookie
  THEN RedirectResponse(SelfUrl(LoginPath),
         [NoParams EXCEPT !.redirect = IF pathname # <<"/">> /\ pathname # LoginPath
                                       THEN pathname ELSE <<>>],
         FALSE, FALSE)
  ELSE IF token.kind = "malformed"
  THEN RedirectResponse(SelfUrl(LoginPath), [NoParams EXCEPT !.error = "invalid_token"], TRUE, FALSE)
  ELSE IF isExpired(token, t)
  THEN RedirectResponse(SelfUrl(LoginPath), [NoParams EXCEPT !.expired = "true"], TRUE, FALSE)
  ELSE IF pathname \in {LoginPath, <<"/", "register">>, <<"/", "forgot-password">>}
  THEN RedirectResponse(ResolveUrl(IF redirectPath # <<>> THEN redirectPath ELSE <<"/", "dashboard">>),
                        NoParams, FALSE, TRUE)
  ELSE NextResponse(pathname)

\* searchParams.get('from'): "" is null
Froms == {"", "login"}

\* the second middleware module of the repository: its own public-path test
isPublicPathSecond(pathname) ==
  \/ pathname = LoginPath
  \/ pathname = <<"/", "register">>
  \/ pathname = <<"/", "forgot-password">>
  \/ StartsWith(pathname, <<"/", "_next">>)
  \/ StartsWith(pathname, <<"/", "api">>)
  \/ Includes(pathname, ".")

DashboardUrl == SelfUrl(<<"/", "dashboard">>)

middlewareSecond(pathname, token, from, redirectPath, t) ==
  IF \/ StartsWith(pathname, <<"/", "api">>)
     \/ StartsWith(pathname, <<"/", "_next">>)
     \/ Includes(pathname, ".")
  THEN NextResponse(pathname)
  ELSE IF ~isPublicPathSecond(pathname)
  THEN IF token = NoCookie
       THEN RedirectResponse(SelfUrl(LoginPath),
              [NoParams EXCEPT !.redirect = IF pathname # <<"/">> /\ pathname # LoginPath
                                            THEN pathname ELSE <<>>],
              FALSE, FALSE)
       ELSE IF token.kind = "malformed"
       THEN RedirectResponse(SelfUrl(LoginPath), [NoParams EXCEPT !.error = "invalid_token"],
                             TRUE, FALSE)
       ELSE IF isExpired(token, t)
       THEN RedirectResponse(SelfUrl(LoginPath), [NoParams EXCEPT !.expired = "true"], TRUE, FALSE)
       ELSE NextResponse(pathname)
  ELSE IF pathname \in {LoginPath, <<"/", "register">>} /\ token # NoCookie
  THEN IF from = "login" /\ redirectPath # <<>>
       THEN RedirectResponse(ResolveUrl(redirectPath), NoParams, FALSE, FALSE)
       ELSE RedirectResponse(DashboardUrl, NoParams, FALSE, FALSE)
  ELSE IF token # NoCookie
  THEN IF token.kind = "malformed"
       THEN [NextResponse(pathname) EXCEPT !.deleteCookie = TRUE]
       ELSE IF ~isExpired(token, t)
       THEN RedirectResponse(DashboardUrl, NoParams, FALSE, FALSE)
       ELSE NextResponse(pathname)
  ELSE NextResponse(pathname)

\* no request is being evaluated
NoResponse ==
  [kind |-> "none", url |-> SelfUrl(<<>>), params |-> NoParams,
   deleteCookie |-> FALSE, noCache |-> FALSE]

GuardIdle ==
  /\ reqGuard = "none"
  /\ reqPath = <<>>
  /\ reqCookie = NoCookie
  /\ reqFrom = ""
  /\ reqRedirect = <<>>
  /\ reqNow = 0
  /\ response = NoResponse

\* a navigation request on a path the matcher selects runs src/middleware.ts
Navigate(pathname, token, redirectPath, t) ==
  /\ response.kind = "none"
  /\ matcher(pathname)
  /\ reqGuard' = "middleware"
  /\ reqPath' = pathname
  /\ reqCookie' = token
  /\ reqFrom' = ""
  /\ reqRedirect' = redirectPath
  /\ reqNow' = t
  /\ response' = middleware(pathname, token, redirectPath, t)
  /\ UNCHANGED <<chatVars, authVars>>

\* the same request evaluated by the second middleware module
NavigateSecond(pathname, token, from, redirectPath, t) ==
  /\ response.kind = "none"
  /\ matcher(pathname)
  /\ reqGuard' = "middlewareSecond"
  /\ reqPath' = pathname
  /\ reqCookie' = token
  /\ reqFrom' = from
  /\ reqRedirect' = redirectPath
  /\ reqNow' = t
  /\ response' = middlewareSecond(pathname, token, from, redirectPath, t)
  /\ UNCHANGED <<chatVars, authVars>>

\* the response is returned; the next request is evaluated on its own
Respond ==
  /\ response.kind # "none"
  /\ reqGuard' = "none"
  /\ reqPath' = <<>>
  /\ reqCookie' = NoCookie
  /\ reqFrom' = ""
  /\ reqRedirect' = <<>>
  /\ reqNow' = 0
  /\ response' = NoResponse
  /\ UNCHANGED <<chatVars, authVars>>

GuardNext ==
  \/ /\ response.kind = "none"
     /\ \E pathname \in Paths, token \in Cookies, redirectPath \in RedirectParams, t \in Nows :
           Navigate(pathname, token, redirectPath, t)
  \/ /\ response.kind = "none"
     /\ \E pathname \in Paths, token \in Cookies, from \in Froms,
           redirectPath \in RedirectParams, t \in Nows :
           NavigateSecond(pathname, token, from, redirectPath, t)
  \/ Respond

\* ------------------------------------------------------------------ session
\* access tokens: "tok" is a JWT with exp = 1 s, "tok2" a JWT with exp = 2 s,
\* "opaque" is a token that is not a JWT
Tokens == {"tok", "tok2", "opaque"}

\* jwtDecode(token)
Decode(token) ==
  CASE token = NoToken -> NoCookie
    [] token = "tok" -> Jwt(1)
    [] token = "tok2" -> Jwt(2)
    [] OTHER -> Malformed

\* Date.now() of the session: just before or just after the expiry of "tok"
SessionNow == IF late THEN 1001 ELSE 999

\* the access_token of a /token response: a JWT that expires later than now,
\* or a token of another format
IssuedTokens == {IF late THEN "tok2" ELSE "tok", "opaque"}

NoUser == "null"

\* the User object of loadUserData
SomeUser == "user"

\* a URL with its search parameters
Url(url, params) == [url |-> url, params |-> params]

\* no navigation started
NoNav == Url(SelfUrl(<<>>), NoParams)

ChatPath == <<"/", "chat">>

LoginUrl == Url(SelfUrl(LoginPath), NoParams)

\* the paths typed or linked to
SessionPaths == {<<"/">>, LoginPath, ChatPath}

\* localStorage fires a storage event in the other tabs when the value of the
\* key changes; the listener reads only the key, so queued events for the key
\* are kept as one
StorageEvent(newToken) ==
  IF newToken # localToken THEN <<"access_token">> ELSE events2

\* the document of this tab is alive: same origin, no navigation started
Alive == location.url.origin = "self" /\ navTarget = NoNav

\* clearAuthData removing the localStorage entry only
clearAuthData_keepsCookie ==
  /\ localToken' = NoToken
  /\ UNCHANGED cookieToken
  /\ user' = NoUser
  /\ events2' = StorageEvent(NoToken)

clearAuthData ==
  /\ localToken' = NoToken
  /\ cookieToken' = NoToken
  /\ user' = NoUser
  /\ events2' = StorageEvent(NoToken)

\* loadUserData() read of localStorage
loadUserData(token) == IF token = NoToken THEN NoUser ELSE SomeUser

\* LoginPage: the status message shown for the query parameters of the guard
LoginStatus(params) ==
  IF params.error # ""
  THEN IF params.error = "invalid_token" THEN "Your session is invalid. Please log in again."
       ELSE IF params.error = "expired" THEN "Your session has expired. Please log in again."
       ELSE "An error occurred during authentication"
  ELSE IF params.expired # "" THEN "Your session has expired. Please log in again."
  ELSE ""

\* history: the token stores and the identity
Snapshot == [localToken |-> localToken, cookieToken |-> cookieToken, user |-> user]

NoSnapshot == [localToken |-> NoToken, cookieToken |-> NoToken, user |-> NoUser]

\* LoginForm.handleSubmit -> AuthContext.login, up to await auth.login; with
\* loading set the login page renders the spinner in place of the form
LoginStart ==
  /\ Alive
  /\ location.url = SelfUrl(LoginPath)
  /\ ~authLoading
  /\ ~loginPending
  /\ beforeLogin' = Snapshot
  /\ clearAuthData
  /\ authLoading' = TRUE
  /\ loginPending' = TRUE
  /\ formError' = ""
  /\ lastOp' = Op("loginStart", <<>>, NoRequest)
  /\ UNCHANGED <<location, navTarget, late, user2, location2>>
  /\ UNCHANGED <<messages, threads, currentThreadId, loadingMessages, isSending, inflight,
                 unloading, now, nextUuid, sends, hadMessages, guardVars>>

\* auth.login resolves: it stores the token in localStorage and the cookie,
\* then login calls setAuthToken and loadUserData(true, result.user)
LoginSucceeds(token) ==
  /\ Alive
  /\ loginPending
  /\ localToken' = token
  /\ cookieToken' = token
  /\ events2' = StorageEvent(token)
  /\ user' = loadUserData(token)
  /\ authLoading' = FALSE
  /\ loginPending' = FALSE
  /\ beforeLogin' = NoSnapshot
  /\ lastOp' = Op("loginSucceeds", <<token>>, NoRequest)
  /\ UNCHANGED <<formError, location, navTarget, late, user2, location2>>
  /\ UNCHANGED <<messages, threads, currentThreadId, loadingMessages, isSending, inflight,
                 unloading, now, nextUuid, sends, hadMessages, guardVars>>

\* auth.login rejects: the catch of login clears the auth data and rethrows;
\* handleSubmit's setErrors addresses the form instance that was unmounted
\* when loading was set, the form shown again is a new instance
LoginFails ==
  /\ Alive
  /\ loginPending
  /\ clearAuthData
  /\ authLoading' = FALSE
  /\ loginPending' = FALSE
  /\ beforeLogin' = NoSnapshot
  /\ lastOp' = Op("loginFails", <<>>, NoRequest)
  /\ UNCHANGED <<formError, location, navTarget, late, user2, location2>>
  /\ UNCHANGED <<messages, threads, currentThreadId, loadingMessages, isSending, inflight,
                 unloading, now, nextUuid, sends, hadMessages, guardVars>>

\* AuthContext.logout
logout ==
  /\ Alive
  /\ clearAuthData
  /\ navTarget' = LoginUrl
  /\ lastOp' = Op("logout", <<>>, NoRequest)
  /\ UNCHANGED <<authLoading, loginPending, formError, location, late, user2, location2,
                 beforeLogin>>
  /\ UNCHANGED <<messages, threads, currentThreadId, loadingMessages, isSending, inflight,
                 unloading, now, nextUuid, sends, hadMessages, guardVars>>

\* the response interceptors of api on a 401 of a call that carried the token
Unauthorized ==
  /\ Alive
  /\ localToken # NoToken
  /\ localToken' = NoToken
  /\ events2' = StorageEvent(NoToken)
  /\ navTarget' = LoginUrl
  /\ lastOp' = Op("unauthorized", <<>>, NoRequest)
  /\ UNCHANGED <<cookieToken, user, authLoading, loginPending, formError, location, late,
                 user2, location2, beforeLogin>>
  /\ UNCHANGED <<messages, threads, currentThreadId, loadingMessages, isSending, inflight,
                 unloading, now, nextUuid, sends, hadMessages, guardVars>>

\* the address bar or a link: a navigation to a page of the application
UserNavigates(pathname, redirectPath) ==
  /\ navTarget = NoNav
  /\ navTarget' = Url(SelfUrl(pathname), [NoParams EXCEPT !.redirect = redirectPath])
  /\ lastOp' = Op("navigate", <<>>, NoRequest)
  /\ UNCHANGED <<cookieToken, user, authLoading, loginPending, formError, location, late,
                 user2, events2, location2, beforeLogin>>
  /\ UNCHANGED <<messages, threads, currentThreadId, loadingMessages, isSending, inflight,
                 localToken, unloading, now, nextUuid, sends, hadMessages, guardVars>>

\* the request of the started navigation runs src/middleware.ts with the
\* cookie of the browser; a redirect is followed, on next() the document is
\* loaded and the providers are constructed again
Evaluate ==
  /\ navTarget # NoNav
  /\ navTarget.url.origin = "self"
  /\ matcher(navTarget.url.path)
  /\ reqGuard' = "middleware"
  /\ reqPath' = navTarget.url.path
  /\ reqCookie' = Decode(cookieToken)
  /\ reqFrom' = ""
  /\ reqRedirect' = navTarget.params.redirect
  /\ reqNow' = SessionNow
  /\ response' = middleware(navTarget.url.path, Decode(cookieToken),
                            navTarget.params.redirect, SessionNow)
  /\ cookieToken' = IF response'.deleteCookie THEN NoToken ELSE cookieToken
  /\ IF response'.kind = "next"
     THEN /\ location' = navTarget
          /\ navTarget' = NoNav
          /\ user' = NoUser
          /\ authLoading' = TRUE
          /\ loginPending' = FALSE
          /\ formError' = ""
          /\ beforeLogin' = NoSnapshot
     ELSE /\ navTarget' = Url(response'.url, response'.params)
          /\ UNCHANGED <<location, user, authLoading, loginPending, formError, beforeLogin>>
  /\ lastOp' = Op("evaluate", <<>>, NoRequest)
  /\ UNCHANGED <<late, user2, events2, location2>>
  /\ UNCHANGED <<messages, threads, currentThreadId, loadingMessages, isSending, inflight,
                 localToken, unloading, now, nextUuid, sends, hadMessages>>

\* a navigation to another origin leaves the application
LeaveApp ==
  /\ navTarget # NoNav
  /\ navTarget.url.origin = "external"
  /\ location' = navTarget
  /\ navTarget' = NoNav
  /\ lastOp' = Op("leaveApp", <<>>, NoRequest)
  /\ UNCHANGED <<cookieToken, user, authLoading, loginPending, formError, late,
                 user2, events2, location2, beforeLogin>>
  /\ UNCHANGED <<messages, threads, currentThreadId, loadingMessages, isSending, inflight,
                 localToken, unloading, now, nextUuid, sends, hadMessages, guardVars>>

\* AuthProvider: useEffect(() => { loadUser() }) after the document is loaded
loadUser ==
  /\ Alive
  /\ authLoading
  /\ ~loginPending
  /\ user' = loadUserData(localToken)
  /\ authLoading' = FALSE
  /\ lastOp' = Op("loadUser", <<>>, NoRequest)
  /\ UNCHANGED <<cookieToken, loginPending, formError, location, navTarget, late,
                 user2, events2, location2, beforeLogin>>
  /\ UNCHANGED <<messages, threads, currentThreadId, loadingMessages, isSending, inflight,
                 localToken, unloading, now, nextUuid, sends, hadMessages, guardVars>>

\* LoginPage: the effect "Redirect if already authenticated"
LoginPageRedirect ==
  /\ Alive
  /\ location.url = SelfUrl(LoginPath)
  /\ user # NoUser
  /\ ~authLoading
  /\ LET redirectParam == location.params.redirect
         redirectPath == IF redirectParam # <<>> /\ StartsWith(redirectParam, <<"/">>)
                         THEN redirectParam ELSE <<"/", "dashboard">>
     IN /\ location.url.path # redirectPath
        /\ navTarget' = Url(ResolveUrl(redirectPath), NoParams)
  /\ lastOp' = Op("loginPageRedirect", <<>>, NoRequest)
  /\ UNCHANGED <<cookieToken, user, authLoading, loginPending, formError, location, late,
                 user2, events2, location2, beforeLogin>>
  /\ UNCHANGED <<messages, threads, currentThreadId, loadingMessages, isSending, inflight,
                 localToken, unloading, now, nextUuid, sends, hadMessages, guardVars>>

\* Home: the effect that pushes /dashboard or /login once loading is false
HomeRedirect ==
  /\ Alive
  /\ location.url = SelfUrl(<<"/">>)
  /\ ~authLoading
  /\ navTarget' = Url(IF user # NoUser THEN DashboardUrl ELSE SelfUrl(LoginPath), NoParams)
  /\ lastOp' = Op("homeRedirect", <<>>, NoRequest)
  /\ UNCHANGED <<cookieToken, user, authLoading, loginPending, formError, location, late,
                 user2, events2, location2, beforeLogin>>
  /\ UNCHANGED <<messages, threads, currentThreadId, loadingMessages, isSending, inflight,
                 localToken, unloading, now, nextUuid, sends, hadMessages, guardVars>>

\* ChatPage: the effect "Redirect to login if not authenticated"
ChatPageAuthEffect ==
  /\ Alive
  /\ location.url = SelfUrl(ChatPath)
  /\ ~authLoading
  /\ user = NoUser
  /\ navTarget' = LoginUrl
  /\ lastOp' = Op("chatPageAuthEffect", <<>>, NoRequest)
  /\ UNCHANGED <<cookieToken, user, authLoading, loginPending, formError, location, late,
                 user2, events2, location2, beforeLogin>>
  /\ UNCHANGED <<messages, threads, currentThreadId, loadingMessages, isSending, inflight,
                 localToken, unloading, now, nextUuid, sends, hadMessages, guardVars>>

\* the wall clock passes the expiry of "tok"
TimePasses ==
  /\ ~late
  /\ late' = TRUE
  /\ lastOp' = Op("timePasses", <<>>, NoRequest)
  /\ UNCHANGED <<cookieToken, user, authLoading, loginPending, formError, location,
                 navTarget, user2, events2, location2, beforeLogin>>
  /\ UNCHANGED <<messages, threads, currentThreadId, loadingMessages, isSending, inflight,
                 localToken, unloading, now, nextUuid, sends, hadMessages, guardVars>>

\* second tab: a listener that does not reload the user for the key
handleStorageChange_ignoresKey ==
  /\ events2 # <<>>
  /\ events2' = Tail(events2)
  /\ UNCHANGED user2
  /\ lastOp' = Op("handleStorageChange", <<>>, NoRequest)
  /\ UNCHANGED <<cookieToken, user, authLoading, loginPending, formError, location,
                 navTarget, late, location2, beforeLogin>>
  /\ UNCHANGED <<messages, threads, currentThreadId, loadingMessages, isSending, inflight,
                 localToken, unloading, now, nextUuid, sends, hadMessages, guardVars>>

\* second tab: handleStorageChange -> loadUserData()
handleStorageChange ==
  /\ events2 # <<>>
  /\ events2' = Tail(events2)
  /\ user2' = loadUserData(localToken)
  /\ lastOp' = Op("handleStorageChange", <<>>, NoRequest)
  /\ UNCHANGED <<cookieToken, user, authLoading, loginPending, formError, location,
                 navTarget, late, location2, beforeLogin>>
  /\ UNCHANGED <<messages, threads, currentThreadId, loadingMessages, isSending, inflight,
                 localToken, unloading, now, nextUuid, sends, hadMessages, guardVars>>

\* second tab: ChatPage effect "Redirect to login if not authenticated"
ChatPageRedirect ==
  /\ location2 = ChatPath
  /\ user2 = NoUser
  /\ location2' = LoginPath
  /\ lastOp' = Op("chatPageRedirect", <<>>, NoRequest)
  /\ UNCHANGED <<cookieToken, user, authLoading, loginPending, formError, location,
                 navTarget, late, user2, events2, beforeLogin>>
  /\ UNCHANGED <<messages, threads, currentThreadId, loadingMessages, isSending, inflight,
                 localToken, unloading, now, nextUuid, sends, hadMessages, guardVars>>

AuthNext ==
  \/ LoginStart
  \/ \E token \in IssuedTokens : LoginSucceeds(token)
  \/ LoginFails
  \/ logout
  \/ Unauthorized
  \/ \E pathname \in SessionPaths, redirectPath \in RedirectParams :
        UserNavigates(pathname, IF pathname = LoginPath THEN redirectPath ELSE <<>>)
  \/ Evaluate
  \/ LeaveApp
  \/ loadUser
  \/ LoginPageRedirect
  \/ HomeRedirect
  \/ ChatPageAuthEffect
  \/ TimePasses
  \/ handleStorageChange
  \/ ChatPageRedirect

\* ------------------------------------------------------------ specification
Init ==
  /\ messages = <<>>
  /\ threads = <<>>
  /\ currentThreadId = NoThread
  /\ loadingMessages = FALSE
  /\ isSending = FALSE
  /\ inflight = <<>>
  /\ localToken = "tok"
  /\ unloading = FALSE
  /\ now = 1
  /\ nextUuid = 0
  /\ sends = 0
  /\ lastOp = Op("init", <<>>, NoRequest)
  /\ hadMessages = {}
  /\ GuardIdle
  /\ cookieToken = "tok"
  /\ user = SomeUser
  /\ authLoading = FALSE
  /\ loginPending = FALSE
  /\ formError = ""
  /\ location = Url(SelfUrl(ChatPath), NoParams)
  /\ navTarget = NoNav
  /\ late = FALSE
  /\ user2 = SomeUser
  /\ events2 = <<>>
  /\ location2 = ChatPath
  /\ beforeLogin = NoSnapshot

CompleteAt(i) ==
  \/ \E reply \in Replies : SendSucceeds(i, reply)
  \/ \E kind \in FailureKinds, serverError \in ServerErrors : SendFails(i, kind, serverError)

Next ==
  \/ MountEffect
  \/ handleNewChat
  \/ \E threadId \in ThreadIdsOf(threads) : handleThreadSelect(threadId)
  \/ \E content \in Contents : handleSendMessage(content)
  \/ \E i \in 1..(2 * MaxSends) : handleRetryMessage(i)
  \/ \E i \in 1..MaxSends, reply \in Replies : SendSucceeds(i, reply)
  \/ \E i \in 1..MaxSends, kind \in FailureKinds, serverError \in ServerErrors :
        SendFails(i, kind, serverError)
  \/ PageReload
  \/ StoreToken
  \/ Tick

Spec == Init /\ [][Next]_vars

\* an id that uuidv4 never returns: no thread of the collection ever has it
UnknownThreadId == MaxThreads + 1

\* the chat session with switchThread also called, by a consumer of
\* useChat(), with an id that is not in the collection
ContextNext ==
  \/ Next
  \/ handleThreadSelect(UnknownThreadId)

ContextSpec == Init /\ [][ContextNext]_vars

\* the chat session in which a call is also rejected with a Network Error
\* while the browser is offline
FailureNext ==
  \/ Next
  \/ \E i \in 1..MaxSends : SendFails(i, "offline", "")

FailureSpec == Init /\ [][FailureNext]_vars

GuardSpec == Init /\ [][GuardNext]_vars

AuthSpec == Init /\ [][AuthNext]_vars

\* the storage event is dispatched and the effects of the second tab run
AuthLiveSpec == AuthSpec /\ WF_vars(handleStorageChange) /\ WF_vars(ChatPageRedirect)

\* a started navigation is carried out and the effects of the loaded page run
AuthSettleSpec ==
  /\ AuthSpec
  /\ WF_vars(Evaluate)
  /\ WF_vars(LeaveApp)
  /\ WF_vars(loadUser)
  /\ WF_vars(LoginPageRedirect)
  /\ WF_vars(HomeRedirect)
  /\ WF_vars(ChatPageAuthEffect)

\* the oldest backend call in flight resolves, rejects or times out (axios
\* timeout: 30000), so every call does
LiveSpec == Spec /\ WF_vars(CompleteAt(1))

\* ------------------------------------------------------------------ claims
MsgIds == {<<"msg", t>> : t \in 1..MaxClock}

Pending(id) == \E i \in DOMAIN messages : messages[i].id = id /\ messages[i].status = "sending"

InFlight(id) == \E i \in DOMAIN inflight : inflight[i].messageId = id

\* C1: every message of the visible log has thread_id equal to the active
\* thread id, in every reachable state.
C1_LogBelongsToActiveThread ==
  \A i \in DOMAIN messages : messages[i].thread_id = currentThreadId

\* C2: after switchThread(id) the visible log is the log of thread id; in
\* particular it is non-empty exactly when messages were appended while thread
\* id was active (switching back to a thread presents its messages again).
C2_SwitchPresentsThreadLog ==
  lastOp.op = "switchThread" => ((messages # <<>>) <=> (currentThreadId \in hadMessages))

\* C3: createNewThread yields an id that no thread of the collection has,
\* makes it the active thread, adds the thread to the collection and leaves
\* the visible log empty; the ids of the collection are pairwise distinct.
C3_CreateNewThreadFresh ==
  /\ [][lastOp'.op = "createNewThread" =>
          /\ currentThreadId' # NoThread
          /\ currentThreadId' \notin ThreadIdsOf(threads)
          /\ threads' = <<[id |-> currentThreadId', title |-> "New Chat"]>> \o threads
          /\ messages' = <<>>]_vars
  /\ [](Cardinality(ThreadIdsOf(threads)) = Len(threads))

C3_Witness ==
  /\ lastOp.op = "createNewThread"
  /\ Len(threads) = 2
  /\ threads[1].id # threads[2].id
  /\ currentThreadId = threads[1].id

\* C4: a send of an empty or whitespace-only text appends no message and
\* issues no backend call.
C4_BlankSendIsNoOp ==
  [][(lastOp'.op = "handleSendMessage" /\ Trim(lastOp'.text) = <<>>) =>
        (messages' = messages /\ inflight' = inflight)]_vars

C4_Witness ==
  /\ lastOp.op = "handleSendMessage"
  /\ lastOp.text = <<" ", " ">>
  /\ currentThreadId # NoThread
  /\ ~isSending

\* C5: when the backend call of a send succeeds, the user message of that send
\* is in the log with status delivered and one assistant message carrying the
\* response text, status delivered, is appended after it.
C5_SuccessDeliversAndReplies ==
  [][lastOp'.op = "sendSucceeds" =>
        LET n == Len(messages') IN
        /\ n = Len(messages) + 1
        /\ messages'[n].role = "assistant"
        /\ messages'[n].status = "delivered"
        /\ messages'[n].content = lastOp'.text
        /\ \E i \in 1..(n - 1) :
              /\ messages'[i].id = lastOp'.req.messageId
              /\ messages'[i].role = "user"
              /\ messages'[i].status = "delivered"]_vars

\* C6: when the backend call of a send fails, the user message of that send is
\* in the log with status failed and a non-empty error, and no message is
\* appended.
C6_FailureMarksFailed ==
  [][lastOp'.op = "sendFails" =>
        /\ Len(messages') = Len(messages)
        /\ \E i \in DOMAIN messages' :
              /\ messages'[i].id = lastOp'.req.messageId
              /\ messages'[i].role = "user"
              /\ messages'[i].status = "failed"
              /\ messages'[i].error \notin {NoError, ""}]_vars

\* C7: after a successful retry of a failed message, the message with that id
\* has status delivered.
C7_RetriedMessageDelivered ==
  (lastOp.op = "sendSucceeds" /\ lastOp.req.retryOf # NoMessage) =>
     \A i \in DOMAIN messages :
        messages[i].id = lastOp.req.retryOf => messages[i].status = "delivered"

C9_DeliveredIsTerminal ==
  [][\A i \in DOMAIN messages :
        (/\ messages[i].role = "user"
         /\ messages[i].status = "delivered"
         /\ i \in DOMAIN messages')
        => messages'[i].status = "delivered"]_vars

\* C10: for every path requested without a token that the evaluating
\* middleware does not count as public, the response is a redirect to the
\* login view that carries the path as the return path.
C10_ProtectedNoTokenRedirectsWithReturnPath ==
  (/\ response.kind # "none"
   /\ reqCookie = NoCookie
   /\ IF reqGuard = "middleware" THEN ~isPublicPath(reqPath) ELSE ~isPublicPathSecond(reqPath)) =>
     /\ response.kind = "redirect"
     /\ response.url = SelfUrl(LoginPath)
     /\ response.params.redirect = reqPath

\* a token the guard can decode and whose expiry is not in the past
ValidToken(token, t) == token.kind = "jwt" /\ token.exp # NoExp /\ token.exp * 1000 >= t

\* C11: a request for the login path evaluated by src/middleware.ts with a
\* valid, non-expired token is answered by a redirect, to the default landing
\* view or to the return path the request carries.
C11_ValidTokenOnLoginIsRedirected ==
  (/\ reqGuard = "middleware"
   /\ reqPath = LoginPath
   /\ ValidToken(reqCookie, reqNow)) =>
     /\ response.kind = "redirect"
     /\ response.url = IF reqRedirect # <<>> THEN ResolveUrl(reqRedirect) ELSE DashboardUrl

\* the request is for a path its middleware does not count as public
ProtectedRequest ==
  /\ response.kind # "none"
  /\ IF reqGuard = "middleware" THEN ~isPublicPath(reqPath) ELSE ~isPublicPathSecond(reqPath)

\* C12: a token whose expiry is in the past is never accepted: a guard
\* evaluation of a protected path with such a token in the cookie redirects to
\* the login view with reason expired and leaves the token in no store, and
\* loadUserData with such a token in local storage sets no identity.
C12_ExpiredTokenYieldsExpired ==
  [][/\ (/\ lastOp'.op = "evaluate"
         /\ ~isPublicPath(navTarget.url.path)
         /\ isExpired(Decode(cookieToken), SessionNow)) =>
          /\ response'.kind = "redirect"
          /\ response'.url = SelfUrl(LoginPath)
          /\ response'.params.expired = "true"
          /\ cookieToken' = NoToken
          /\ localToken' = NoToken
     /\ (lastOp'.op = "loadUser" /\ isExpired(Decode(localToken), SessionNow)) =>
          user' = NoUser]_vars

\* C13: on a protected path a malformed token and an expired token are both
\* answered by a redirect to the login view that deletes the cookie; the
\* malformed one carries error=invalid_token and no expired parameter, the
\* expired one carries expired=true and no error parameter, and the login page
\* shows a different message for each.
C13_MalformedAndExpiredReasons ==
  /\ (ProtectedRequest /\ reqCookie.kind = "malformed") =>
        /\ response.kind = "redirect"
        /\ response.url = SelfUrl(LoginPath)
        /\ response.deleteCookie
        /\ response.params.error = "invalid_token"
        /\ response.params.expired = ""
        /\ LoginStatus(response.params) = "Your session is invalid. Please log in again."
  /\ (ProtectedRequest /\ reqCookie.kind = "jwt" /\ isExpired(reqCookie, reqNow)) =>
        /\ response.kind = "redirect"
        /\ response.url = SelfUrl(LoginPath)
        /\ response.deleteCookie
        /\ response.params.expired = "true"
        /\ response.params.error = ""
        /\ LoginStatus(response.params) = "Your session has expired. Please log in again."

C13_Witness ==
  /\ reqGuard = "middleware"
  /\ reqPath = <<"/", "chat">>
  /\ reqCookie = Malformed
  /\ response.params.error = "invalid_token"
  /\ response.deleteCookie

\* a return path that is root-relative on the application's own origin
RootRelative(ref) == ref # <<>> /\ ref[1] = "/" /\ ~(Len(ref) >= 2 /\ ref[2] = "/")

\* C14: the navigation the login page starts for an authenticated user goes to
\* the return path when it is a root-relative path of the own origin and to
\* /dashboard otherwise; its target is never on another origin.
C14_PostLoginTargetIsOwnOrigin ==
  [][lastOp'.op = "loginPageRedirect" =>
        /\ navTarget'.url.origin = "self"
        /\ navTarget'.url.path = IF RootRelative(location.params.redirect)
                                 THEN location.params.redirect
                                 ELSE <<"/", "dashboard">>]_vars

\* the answer src/middleware.ts gives now to a request for pathname
GuardAnswer(pathname) == middleware(pathname, Decode(cookieToken), <<>>, SessionNow)

ProtectedPaths == {pathname \in Paths : matcher(pathname) /\ ~isPublicPath(pathname)}

\* C15: after a successful login the token is in local storage and in the
\* cookie, the identity is set, and the guard admits a request for /chat.
C15_LoginThenChatAllowed ==
  lastOp.op = "loginSucceeds" =>
     /\ localToken = lastOp.text[1]
     /\ cookieToken = lastOp.text[1]
     /\ user # NoUser
     /\ GuardAnswer(ChatPath).kind = "next"

\* C16: when a login fails, the token in local storage, the token in the
\* cookie and the identity are those of before the attempt, and the form shows
\* a failure reason.
C16_FailedLoginLeavesState ==
  [][lastOp'.op = "loginFails" =>
        /\ localToken' = beforeLogin.localToken
        /\ cookieToken' = beforeLogin.cookieToken
        /\ user' = beforeLogin.user
        /\ formError' # ""]_vars

\* C17: after logout the token is in neither store, the identity is reset, no
\* login call is started by it, and the guard redirects every protected path
\* to the login view.
C17_LogoutClearsEverything ==
  lastOp.op = "logout" =>
     /\ localToken = NoToken
     /\ cookieToken = NoToken
     /\ user = NoUser
     /\ \A pathname \in ProtectedPaths :
           /\ GuardAnswer(pathname).kind = "redirect"
           /\ GuardAnswer(pathname).url = SelfUrl(LoginPath)

C17_Witness ==
  /\ lastOp.op = "logout"
  /\ events2 # <<>>
  /\ navTarget = LoginUrl
  /\ GuardAnswer(ChatPath).kind = "redirect"

\* C18: after a 401 of an authenticated call the token is in neither store and
\* the guard answers every protected path with a redirect to the login view
\* with reason expired.
C18_UnauthorizedExpiresSession ==
  lastOp.op = "unauthorized" =>
     /\ localToken = NoToken
     /\ cookieToken = NoToken
     /\ \A pathname \in ProtectedPaths :
           /\ GuardAnswer(pathname).kind = "redirect"
           /\ GuardAnswer(pathname).url = SelfUrl(LoginPath)
           /\ GuardAnswer(pathname).params.expired = "true"

\* C19: once the storage events are delivered to the second tab, it has no
\* identity whenever local storage has no token; and when the token is cleared
\* the second tab eventually has no identity and no longer shows the chat page,
\* unless a token is stored again.
C19_ClearedTokenPropagates ==
  /\ []((events2 = <<>> /\ localToken = NoToken) => user2 = NoUser)
  /\ [][(lastOp'.op = "handleStorageChange" /\ localToken = NoToken) => user2' = NoUser]_vars
  /\ (localToken = NoToken /\ events2 # <<>>) ~>
        (localToken # NoToken \/ (user2 = NoUser /\ location2 # ChatPath))

C19_Witness ==
  /\ lastOp.op = "handleStorageChange"
  /\ localToken = NoToken
  /\ user2 = NoUser
  /\ events2 = <<>>

\* a title as text
TextOf(title) == <<title>>

\* the bounded length of a title, in atoms
Truncate(text) == SubSeq(text, 1, IF Len(text) < MaxTitleLen THEN Len(text) ELSE MaxTitleLen)

\* C20: the thread of the listing that is active and has a user message in the
\* log has as title the text of its first user message, truncated.
C20_TitleFollowsFirstMessage ==
  \A i \in DOMAIN threads :
     \A j \in DOMAIN messages :
        (/\ threads[i].id = currentThreadId
         /\ messages[j].thread_id = currentThreadId
         /\ messages[j].role = "user"
         /\ \A k \in 1..(j - 1) : messages[k].role # "user") =>
           TextOf(threads[i].title) = Truncate(messages[j].content)

\* C21: no two messages of the log have the same id.
C21_MessageIdsUnique ==
  \A i, j \in DOMAIN messages : i # j => messages[i].id # messages[j].id

\* C22: a send that fails with a timeout or a backend error changes neither
\* the token in local storage, nor the cookie, nor the identity, and starts no
\* navigation.
C22_TransientFailureKeepsSession ==
  [][(lastOp'.op = "sendFails" /\ lastOp'.text[1] \in {"timeout", "offline", "server"}) =>
        /\ localToken' = localToken
        /\ cookieToken' = cookieToken
        /\ user' = user
        /\ unloading' = unloading
        /\ navTarget' = navTarget
        /\ location' = location]_vars

C22_Witness ==
  /\ lastOp.op = "sendFails"
  /\ lastOp.text = <<"timeout">>
  /\ localToken # NoToken
  /\ ~unloading
  /\ \E i \in DOMAIN messages : messages[i].id = lastOp.req.messageId /\ messages[i].status = "failed"

\* the indices of the log at which a step changes the status or the error
Changed == {k \in DOMAIN messages : k \in DOMAIN messages' /\
               (messages'[k].status # messages[k].status \/ messages'[k].error # messages[k].error)}

C24_ExpiredFromExpiryInstant ==
  (ProtectedRequest /\ reqCookie.kind = "jwt" /\ reqCookie.exp # NoExp) =>
     ((response.kind = "redirect" /\ response.params.expired = "true")
        <=> reqNow >= reqCookie.exp * 1000)

\* C25: src/middleware.ts answers a non-public path whose token is absent,
\* malformed or expired with a redirect to the login view that carries the
\* requested path as the return path.
C25_InvalidTokenRedirectCarriesPath ==
  (/\ reqGuard = "middleware"
   /\ ProtectedRequest
   /\ (reqCookie = NoCookie \/ reqCookie.kind = "malformed" \/ isExpired(reqCookie, reqNow))) =>
     /\ response.kind = "redirect"
     /\ response.url = SelfUrl(LoginPath)
     /\ response.params.redirect = reqPath

\* a navigation is under way, the page is loading, or an effect of the page
\* shown is about to navigate
Redirecting ==
  \/ navTarget # NoNav
  \/ Alive /\ authLoading /\ ~loginPending
  \/ /\ Alive
     /\ ~authLoading
     /\ \/ /\ location.url = SelfUrl(LoginPath)
           /\ user # NoUser
           /\ location.url.path #
                 (IF location.params.redirect # <<>> /\ StartsWith(location.params.redirect, <<"/">>)
                  THEN location.params.redirect ELSE <<"/", "dashboard">>)
        \/ location.url = SelfUrl(<<"/">>)
        \/ location.url = SelfUrl(ChatPath) /\ user = NoUser

\* the steps of the user and of the backend
UserOps == {"init", "navigate", "loginStart", "loginSucceeds", "loginFails", "logout", "unauthorized"}

\* C26: navigation settles: unless the user or the backend keeps acting, the
\* chain of guard redirects and page redirects reaches a page that starts no
\* further navigation.
C26_NavigationSettles ==
  []<>(~Redirecting \/ lastOp.op \in UserOps)

\* the operations after which the two token stores are compared
StoreOps == {"loginSucceeds", "loginFails", "logout", "evaluate", "unauthorized"}

\* C27: after a login, a logout, a guard evaluation and a 401 response the
\* cookie holds a token exactly when local storage holds one.
C27_TokenStoresAgree ==
  lastOp.op \in StoreOps => ((cookieToken = NoToken) <=> (localToken = NoToken))

\* a token jwtDecode accepts and whose expiry is not in the past
UsableToken(token) == Decode(token).kind = "jwt" /\ ~isExpired(Decode(token), SessionNow)

\* C28: loadUserData sets a user only for a token in local storage that can be
\* decoded and is not expired.
C28_UserOnlyForUsableToken ==
  [][(lastOp'.op \in {"loadUser", "loginSucceeds"} /\ user' # NoUser) => UsableToken(localToken')]_vars

\* pathname is an entry of publicPaths or lies under one
OnAllowList(pathname) ==
  \E path \in publicPaths : pathname = path \/ StartsWith(pathname, path \o <<"/">>)

\* C29: src/middleware.ts answers a request without a token with next() only
\* when the path is an entry of publicPaths or lies under one; every other
\* path without a token is redirected to the login view.
C29_TokenlessOnlyAllowListed ==
  (/\ reqGuard = "middleware"
   /\ response.kind # "none"
   /\ reqCookie = NoCookie
   /\ ~OnAllowList(reqPath)) =>
     /\ response.kind = "redirect"
     /\ response.url = SelfUrl(LoginPath)

\* C30: once the chat surface has a thread, the active-thread pointer is the
\* id of a thread of the collection, whatever id switchThread is called with,
\* and no step of the session removes a thread from the collection.
C30_ActiveThreadInCollection ==
  /\ [](threads # <<>> => currentThreadId \in ThreadIdsOf(threads))
  /\ [][lastOp'.op # "pageReload" => ThreadIdsOf(threads) \subseteq ThreadIdsOf(threads')]_vars

====
